---- MODULE Spec2Model ----
(***************************************************************************)
(* Model of src/app.py: the Shopee product authenticity checker.           *)
(*                                                                         *)
(* Text is modelled as a sequence of tokens.  A URL is a sequence of       *)
(* single characters; a judgment-service reply, a verdict or a message is  *)
(* a sequence of tokens in which a whitespace character is always a token  *)
(* of its own, so that str.strip() and == act on it as they do in Python.  *)
(***************************************************************************)
EXTENDS Integers, Sequences, FiniteSets, TLC

VARIABLES
    pc,               \* position of the request: idle, bootstrap, api, judge, write, returned, done
    product_url,      \* the handler's product_url (input URL, then the API URL)
    product_category, \* the handler's product_category
    ids,              \* <<shop_id, item_id>> once the URL matched, <<>> before
    product_images,   \* the image identifiers extracted from the API response
    results,          \* the rows accumulated by the judging loop
    csv,              \* content of authenticity_check.csv (sequence of rows, <<>> when absent or empty)
    ret,              \* what scrape_shopee_reviews returned: [message, image_url]
    raised,           \* the exception that left scrape_shopee_reviews / gradio_scrape, "none" if none
    ui,               \* what gradio_scrape returned: [message, img]
    netLog,           \* HTTP requests issued by the current request, in order
    svcLog,           \* judgment-service calls of the current request, in order
    apiResponse,      \* what the product-detail API request produced
    svcReplies,       \* what the judgment service produced for each image judged so far
    csvBefore,        \* file content when the current request started
    lastReport,       \* file content written by the most recent run whose write completed
    input_url,        \* the URL the request was started with
    bootstrapResult,  \* what the page view of line 126 produced
    jsonErrorIsRequestException  \* whether the installed requests library derives its JSONDecodeError from RequestException

vars == <<pc, product_url, product_category, ids, product_images, results, csv, ret,
          raised, ui, netLog, svcLog, apiResponse, svcReplies, csvBefore, lastReport,
          input_url, bootstrapResult, jsonErrorIsRequestException>>

-----------------------------------------------------------------------------
(* Bounds *)

MaxImages == 2   \* longest image list a listing returns
MaxUrlLen == 6   \* longest URL given to the identifier parser

-----------------------------------------------------------------------------
(* Text helpers *)

Whitespace == {" ", "\n", "\t"}

RECURSIVE LStrip(_)
LStrip(s) ==
    IF s = <<>> THEN <<>>
    ELSE IF Head(s) \in Whitespace THEN LStrip(Tail(s)) ELSE s

RECURSIVE RStrip(_)
RStrip(s) ==
    IF s = <<>> THEN <<>>
    ELSE IF s[Len(s)] \in Whitespace THEN RStrip(SubSeq(s, 1, Len(s) - 1)) ELSE s

\* str.strip()
Strip(s) == RStrip(LStrip(s))

\* str(int) for the small counts of a report
Dec(n) == <<"0", "1", "2", "3", "4", "5", "6", "7", "8", "9">>[n + 1]

\* f"{confidence:.2%}" for the two confidences the judge produces
FormatPercent(c) == IF c = 1 THEN "100.00%" ELSE "0.00%"

Range(s) == {s[i] : i \in 1..Len(s)}

RECURSIVE SeqsOfLen(_, _)
SeqsOfLen(S, n) ==
    IF n = 0 THEN {<<>>}
    ELSE {Append(s, x) : s \in SeqsOfLen(S, n - 1), x \in S}

SeqsUpTo(S, n) == UNION {SeqsOfLen(S, k) : k \in 0..n}

-----------------------------------------------------------------------------
(* Listing identifier: re.search(r'i\.(\d+)\.(\d+)', product_url) *)

DigitChars == {"1", "2"}

NoMatch == <<>>

\* all of s[a..b] are digits (and the range is non-empty)
AllDigits(s, a, b) == a <= b /\ b <= Len(s) /\ \A k \in a..b : s[k] \in DigitChars

\* the lengths m the first group (\d+) can take at position p so that the rest
\* of the pattern, \.(\d+), can still match behind it
FirstGroupLens(s, p) ==
    {m \in 1..Len(s) :
        /\ AllDigits(s, p + 2, p + 1 + m)
        /\ p + 2 + m <= Len(s) /\ s[p + 2 + m] = "."
        /\ AllDigits(s, p + 3 + m, p + 3 + m)}

SecondGroupLens(s, q) == {n \in 1..Len(s) : AllDigits(s, q, q + n - 1)}

Max(S) == CHOOSE x \in S : \A y \in S : y <= x

\* the match anchored at position p: greedy groups, or NoMatch
MatchAt(s, p) ==
    IF p + 1 <= Len(s) /\ s[p] = "i" /\ s[p + 1] = "." /\ FirstGroupLens(s, p) # {}
    THEN LET m == Max(FirstGroupLens(s, p))
             q == p + 3 + m
             n == Max(SecondGroupLens(s, q))
         IN  <<SubSeq(s, p + 2, p + 1 + m), SubSeq(s, q, q + n - 1)>>
    ELSE NoMatch

\* the scan taken from the end of the string
RECURSIVE SearchFromRight(_, _)
SearchFromRight(s, p) ==
    IF p < 1 THEN NoMatch
    ELSE IF MatchAt(s, p) # NoMatch THEN MatchAt(s, p) ELSE SearchFromRight(s, p - 1)

RECURSIVE SearchFrom(_, _)
SearchFrom(s, p) ==
    IF p > Len(s) THEN NoMatch
    ELSE IF MatchAt(s, p) # NoMatch THEN MatchAt(s, p) ELSE SearchFrom(s, p + 1)

\* a scan that keeps the last match instead of the first
ReSearchRightmost(s) == SearchFromRight(s, Len(s))

\* re.search: the leftmost match
ReSearch(s) == SearchFrom(s, 1)

RequiredMsg == <<"Error:", "Product URL is required.">>
InvalidUrlMsg == <<"Error:", "Invalid Shopee URL format. Please try again.">>

\* `not product_url or not product_url.strip()`
IsBlank(url) == url = <<>> \/ Strip(url) = <<>>

\* lines 91-99: the message returned for a rejected URL, <<>> when the URL is accepted
ParseError(url) ==
    IF IsBlank(url) THEN RequiredMsg
    ELSE IF ReSearch(url) = NoMatch THEN InvalidUrlMsg
    ELSE <<>>

ApiUrl(shop_id, item_id) ==
    <<"https://shopee.co.id/api/v4/pdp/get_pc?shop_id=", shop_id, "&item_id=", item_id>>

PageUrl(shop_id, item_id) == <<"https://shopee.co.id/-i.", shop_id, ".", item_id>>

-----------------------------------------------------------------------------
(* Reference library and judge adapter: compare_with_reference *)

\* what load_reference_images() returns: category -> reference image paths
ReferenceData ==
    [bags  |-> <<"reference_images/bags/ref1.jpg", "reference_images/bags/ref2.png">>,
     empty |-> <<>>]

Categories == {"bags", "empty", "absent"}

\* load_reference_images().get(product_category, [])
RefGet(category) ==
    IF category \in DOMAIN ReferenceData THEN ReferenceData[category] ELSE <<>>

PassText == <<"Pass">>
ErrorText == <<"Error">>
NoReferenceText ==
    <<"Error:", " ", "No", " ", "reference", " ", "images", " ", "found", " ",
      "for", " ", "this", " ", "category">>

\* the texts the judgment service is made to answer with
SvcTexts ==
    { <<"Pass">>, <<" ", "Pass", "\n">>, <<"Not", " ", "Pass">>, <<"pass">>,
      <<"Pass", ".">>, <<>>, <<"garbage">> }

\* one call of client.chat.completions.create: a text, a reply without content, or an exception
SvcReplies ==
    [kind : {"text"}, text : SvcTexts] \cup {[kind |-> "null", text |-> <<>>],
                                             [kind |-> "raise", text |-> <<>>]}

\* placeholder recorded for an image judged without calling the service
NoReply == [kind |-> "notcalled", text |-> <<>>]

\* whether compare_with_reference reaches the service call (line 39)
ServiceCalled(category) == RefGet(category) # <<>>

JudgeResult(classification, confidence, exc, request) ==
    [classification |-> classification, confidence |-> confidence,
     exc |-> exc, request |-> request]

\* the request sent to the service: the first reference image, then the candidate
SvcRequest(category, image_url) == <<RefGet(category)[1], image_url>>

\* a judge that compares the reply without trimming it
CompareUntrimmed(image_url, category, reply) ==
    IF RefGet(category) = <<>>
    THEN JudgeResult(NoReferenceText, 0, "none", <<>>)
    ELSE IF reply.kind # "text"
    THEN JudgeResult(ErrorText, 0, "none", SvcRequest(category, image_url))
    ELSE JudgeResult(reply.text, IF reply.text = PassText THEN 1 ELSE 0, "none",
                     SvcRequest(category, image_url))

\* a judge that records a failed judgment as a Pass verdict
CompareSwallowing(image_url, category, reply) ==
    IF RefGet(category) = <<>>
    THEN JudgeResult(NoReferenceText, 0, "none", <<>>)
    ELSE IF reply.kind # "text"
    THEN JudgeResult(PassText, 0, "none", SvcRequest(category, image_url))
    ELSE JudgeResult(Strip(reply.text), IF Strip(reply.text) = PassText THEN 1 ELSE 0,
                     "none", SvcRequest(category, image_url))

\* a judge without the try/except: the service failure leaves it as a requests exception
CompareUncaught(image_url, category, reply) ==
    IF RefGet(category) = <<>>
    THEN JudgeResult(NoReferenceText, 0, "none", <<>>)
    ELSE IF reply.kind # "text"
    THEN JudgeResult(ErrorText, 0, "RequestException", SvcRequest(category, image_url))
    ELSE JudgeResult(Strip(reply.text), IF Strip(reply.text) = PassText THEN 1 ELSE 0,
                     "none", SvcRequest(category, image_url))

\* a judge without the early return of lines 39-40
CompareNoReferenceCheck(image_url, category, reply) ==
    IF reply.kind # "text"
    THEN JudgeResult(ErrorText, 0, "none", <<"no reference", image_url>>)
    ELSE JudgeResult(Strip(reply.text), IF Strip(reply.text) = PassText THEN 1 ELSE 0,
                     "none", <<"no reference", image_url>>)

\* compare_with_reference(image_url, product_category), given what the service does:
\* the (result, confidence) it returns, the exception that leaves it and the
\* request it sent to the service (<<>> when it sent none)
CompareWithReference(image_url, category, reply) ==
    LET reference_images == RefGet(category)
    IN  IF reference_images = <<>>
        THEN JudgeResult(NoReferenceText, 0, "none", <<>>)
        ELSE IF reply.kind # "text"
        THEN JudgeResult(ErrorText, 0, "none", <<reference_images[1], image_url>>)
        ELSE LET result == Strip(reply.text)
             IN  JudgeResult(result, IF result = PassText THEN 1 ELSE 0, "none",
                             <<reference_images[1], image_url>>)

-----------------------------------------------------------------------------
(* Listing fetcher: the two session.get calls and the JSON extraction *)

ImageIds == {"A", "B"}
ImageLists == SeqsUpTo(ImageIds, MaxImages)

CdnPrefix == "https://cf.shopee.co.id/file/"
ImageUrl(img_id) == <<CdnPrefix, img_id>>

\* a response body: not JSON, or JSON described along the path data.product_info.images
Body(json, top, d, p, i, l) ==
    [json |-> json, top |-> top, data |-> d, product_info |-> p, images |-> i, list |-> l]

Bodies ==
    { Body(FALSE, "none", "missing", "missing", "missing", <<>>),
      Body(TRUE, "list", "missing", "missing", "missing", <<>>) }
    \cup { Body(TRUE, "obj", d, "missing", "missing", <<>>) : d \in {"missing", "null", "str"} }
    \cup { Body(TRUE, "obj", "obj", p, "missing", <<>>) : p \in {"missing", "null", "str"} }
    \cup { Body(TRUE, "obj", "obj", "obj", i, <<>>) : i \in {"missing", "null"} }
    \cup { Body(TRUE, "obj", "obj", "obj", "list", l) : l \in ImageLists }

NoBody == Body(FALSE, "none", "missing", "missing", "missing", <<>>)

Statuses == {"200", "403", "500"}

\* what session.get(product_url, headers, timeout=10) can produce
ApiResponses ==
    { [kind |-> "timeout", status |-> "", body |-> NoBody],
      [kind |-> "error", status |-> "", body |-> NoBody] }
    \cup { [kind |-> "response", status |-> s, body |-> NoBody] : s \in Statuses \ {"200"} }
    \cup { [kind |-> "response", status |-> "200", body |-> b] : b \in Bodies }

NoResponse == [kind |-> "none", status |-> "", body |-> NoBody]

TimeoutMsg == <<"Error:", "Request timed out. Please try again.">>
NetworkMsg(detail) == <<"Error:", "Failed to fetch data:", detail>>
HttpStatusMsg(status) == <<"Error:", "Failed to fetch product data (HTTP", status, ").">>
NoImagesMsg == <<"Error:", "No product images found.">>

\* product_data.get('data', {}).get('product_info', {}).get('images', [])
ExtractImages(body) ==
    IF body.top # "obj" THEN [exc |-> "AttributeError", images |-> <<>>]
    ELSE IF body.data = "missing" THEN [exc |-> "none", images |-> <<>>]
    ELSE IF body.data # "obj" THEN [exc |-> "AttributeError", images |-> <<>>]
    ELSE IF body.product_info = "missing" THEN [exc |-> "none", images |-> <<>>]
    ELSE IF body.product_info # "obj" THEN [exc |-> "AttributeError", images |-> <<>>]
    ELSE IF body.images = "list" THEN [exc |-> "none", images |-> body.list]
    ELSE [exc |-> "none", images |-> <<>>]

Returned(message) == [kind |-> "return", message |-> message, exc |-> "none", images |-> <<>>]
Raised(exc) == [kind |-> "raise", message |-> <<>>, exc |-> exc, images |-> <<>>]
Proceed(images) == [kind |-> "proceed", message |-> <<>>, exc |-> "none", images |-> images]

\* lines 129-142 with the handlers of lines 178-181: what the handler does with the API result
ApiOutcome(resp, caught) ==
    IF resp.kind = "timeout" THEN Returned(TimeoutMsg)
    ELSE IF resp.kind = "error" THEN Returned(NetworkMsg("ConnectionError"))
    ELSE IF resp.status # "200" THEN Returned(HttpStatusMsg(resp.status))
    ELSE IF ~resp.body.json
    THEN IF caught THEN Returned(NetworkMsg("JSONDecodeError")) ELSE Raised("JSONDecodeError")
    ELSE LET x == ExtractImages(resp.body)
         IN  IF x.exc # "none" THEN Raised(x.exc)
             ELSE IF x.images = <<>> THEN Returned(NoImagesMsg)
             ELSE Proceed(x.images)

\* what session.get(page url, headers) can produce: a response of some status, or an exception
BootstrapResults == {"200", "403", "timeout", "error"}

\* a bootstrap whose failure is ignored
BootstrapIgnoringFailure(result) == <<>>

\* line 126 with the handlers of lines 178-181: the message returned when the
\* page view fails, <<>> when the handler goes on to the API request
BootstrapOutcome(result) ==
    IF result = "timeout" THEN TimeoutMsg
    ELSE IF result = "error" THEN NetworkMsg("ConnectionError")
    ELSE <<>>

-----------------------------------------------------------------------------
(* Report: CSV rows and summary *)

CsvHeader == <<"image_url", "authenticity_result", "confidence">>

\* lines 159-163: the CSV row of one result
CsvRow(r) == <<r.image_url, r.classification, FormatPercent(r.confidence)>>

\* lines 155-163: the whole file as a completed write leaves it
CsvContent(rs) == <<CsvHeader>> \o [i \in 1..Len(rs) |-> CsvRow(rs[i])]

\* a count by substring ('Pass' in classification) instead of equality
PassCountContaining(rs) ==
    Cardinality({i \in 1..Len(rs) : "Pass" \in Range(rs[i].classification)})

\* line 165: sum(1 for r in results if r['classification'] == 'Pass')
PassCount(rs) == Cardinality({i \in 1..Len(rs) : rs[i].classification = PassText})

\* lines 166-174: the summary text
Summary(rs) ==
    <<"Authenticity Check Results:",
      "Total Images Analyzed:", Dec(Len(rs)),
      "Appears Authentic:", Dec(PassCount(rs)),
      "Potentially Counterfeit:", Dec(Len(rs) - PassCount(rs)),
      "Detailed results saved to", "authenticity_check.csv">>

\* line 176: return summary, results[0]['image_url']
ReportReturn(rs) == [message |-> Summary(rs), image_url |-> rs[1].image_url]

\* how a write of the report can end: completed, or failed with the file
\* unopened (-1) or holding only the first k rows of the new content
WriteOutcomes(rs) ==
    {[ok |-> TRUE, written |-> Len(rs) + 1]}
    \cup {[ok |-> FALSE, written |-> k] : k \in -1 .. Len(rs)}

\* a write that appends to the previous content
FileAfterAppend(old, rs, outcome) ==
    IF outcome.ok THEN old \o CsvContent(rs)
    ELSE IF outcome.written = -1 THEN old
    ELSE SubSeq(CsvContent(rs), 1, outcome.written)

\* open(output_file, 'w') and the writerow calls: the file after the write
FileAfter(old, rs, outcome) ==
    IF outcome.ok THEN CsvContent(rs)
    ELSE IF outcome.written = -1 THEN old
    ELSE SubSeq(CsvContent(rs), 1, outcome.written)

\* the file a request finds: absent, or the report an earlier run over the
\* images B, A left behind
OldResults ==
    << [image_url |-> ImageUrl("B"), classification |-> PassText, confidence |-> 1],
       [image_url |-> ImageUrl("A"), classification |-> ErrorText, confidence |-> 0] >>
PriorFiles == { <<>>, CsvContent(OldResults) }

NoRet == [message |-> <<>>, image_url |-> <<>>]
NoUi == [message |-> <<>>, img |-> <<>>]

-----------------------------------------------------------------------------
(* The request handler, one action per step between external calls *)

Init ==
    /\ pc = "idle"
    /\ product_url = <<>>
    /\ product_category = "bags"
    /\ ids = <<>>
    /\ product_images = <<>>
    /\ results = <<>>
    /\ csv \in PriorFiles
    /\ ret = NoRet
    /\ raised = "none"
    /\ ui = NoUi
    /\ netLog = <<>>
    /\ svcLog = <<>>
    /\ apiResponse = NoResponse
    /\ svcReplies = <<>>
    /\ csvBefore = csv
    /\ lastReport = csv
    /\ input_url = <<>>
    /\ bootstrapResult = "none"
    /\ jsonErrorIsRequestException \in BOOLEAN

\* gradio_scrape is called with (url, category): lines 183-184 and 90-102
StartRequest(url, category) ==
    /\ pc = "idle"
    /\ input_url' = url
    /\ product_category' = category
    /\ IF ParseError(url) # <<>>
       THEN /\ pc' = "returned"
            /\ ret' = [message |-> ParseError(url), image_url |-> <<>>]
            /\ product_url' = url
            /\ ids' = <<>>
       ELSE /\ pc' = "bootstrap"
            /\ ret' = NoRet
            /\ ids' = ReSearch(url)
            /\ product_url' = ApiUrl(ReSearch(url)[1], ReSearch(url)[2])
    /\ UNCHANGED <<product_images, results, csv, raised, ui, netLog, svcLog, apiResponse,
                   svcReplies, csvBefore, lastReport, bootstrapResult,
                   jsonErrorIsRequestException>>

\* line 126: the page view that collects cookies
Bootstrap(result) ==
    /\ pc = "bootstrap"
    /\ bootstrapResult' = result
    /\ netLog' = Append(netLog, PageUrl(ids[1], ids[2]))
    /\ IF BootstrapOutcome(result) # <<>>
       THEN /\ pc' = "returned"
            /\ ret' = [message |-> BootstrapOutcome(result), image_url |-> <<>>]
       ELSE /\ pc' = "api"
            /\ ret' = ret
    /\ UNCHANGED <<product_url, product_category, ids, product_images, results, csv, raised,
                   ui, svcLog, apiResponse, svcReplies, csvBefore, lastReport, input_url,
                   jsonErrorIsRequestException>>

\* lines 129-142: the API request and the extraction of the image list
ApiRequest(resp) ==
    /\ pc = "api"
    /\ netLog' = Append(netLog, product_url)
    /\ apiResponse' = resp
    /\ LET o == ApiOutcome(resp, jsonErrorIsRequestException)
       IN  /\ pc' = CASE o.kind = "return" -> "returned"
                      [] o.kind = "raise" -> "done"
                      [] OTHER -> IF o.images = <<>> THEN "write" ELSE "judge"
           /\ ret' = IF o.kind = "return" THEN [message |-> o.message, image_url |-> <<>>]
                     ELSE ret
           /\ raised' = o.exc
           /\ product_images' = o.images
    /\ UNCHANGED <<product_url, product_category, ids, results, csv, ui, svcLog, svcReplies,
                   csvBefore, lastReport, input_url, bootstrapResult,
                   jsonErrorIsRequestException>>

\* lines 145-152: one iteration of the judging loop
JudgeNext(reply) ==
    /\ pc = "judge"
    /\ Len(results) < Len(product_images)
    /\ reply = IF ServiceCalled(product_category) THEN reply ELSE NoReply
    /\ LET img_id == product_images[Len(results) + 1]
           image_url == ImageUrl(img_id)
           c == CompareWithReference(image_url, product_category, reply)
       IN  /\ svcLog' = IF c.request # <<>> THEN Append(svcLog, c.request) ELSE svcLog
           /\ svcReplies' = Append(svcReplies, reply)
           /\ IF c.exc = "none"
              THEN /\ results' = Append(results, [image_url |-> image_url,
                                                 classification |-> c.classification,
                                                 confidence |-> c.confidence])
                   /\ pc' = IF Len(results) + 1 = Len(product_images)
                            THEN "write" ELSE "judge"
                   /\ ret' = ret
                   /\ raised' = raised
              ELSE \* an exception leaving the loop meets the handlers of lines 178-181
                   /\ results' = results
                   /\ IF c.exc \in {"Timeout", "RequestException"}
                      THEN /\ pc' = "returned"
                           /\ ret' = [message |-> IF c.exc = "Timeout" THEN TimeoutMsg
                                                  ELSE NetworkMsg(c.exc),
                                      image_url |-> <<>>]
                           /\ raised' = raised
                      ELSE /\ pc' = "done"
                           /\ ret' = ret
                           /\ raised' = c.exc
    /\ UNCHANGED <<product_url, product_category, ids, product_images, csv, ui, netLog,
                   apiResponse, csvBefore, lastReport, input_url, bootstrapResult,
                   jsonErrorIsRequestException>>

\* lines 154-176: the CSV write, the summary and the return
WriteReport(outcome) ==
    /\ pc = "write"
    /\ csv' = FileAfter(csv, results, outcome)
    /\ IF outcome.ok /\ results # <<>>
       THEN /\ pc' = "returned"
            /\ ret' = ReportReturn(results)
            /\ raised' = raised
            /\ lastReport' = csv'
       ELSE /\ pc' = "done"
            /\ ret' = ret
            /\ raised' = IF outcome.ok THEN "IndexError" ELSE "OSError"
            /\ lastReport' = lastReport
    /\ UNCHANGED <<product_url, product_category, ids, product_images, results, ui, netLog,
                   svcLog, apiResponse, svcReplies, csvBefore, input_url, bootstrapResult,
                   jsonErrorIsRequestException>>

\* what requests.get(image_url) and Image.open make of the sample image
SampleFetches == {"ok", "error", "badimage"}

\* lines 185-188: the front-end wrapper loads the sample image and returns
GradioReturn(fetch) ==
    /\ pc = "returned"
    /\ pc' = "done"
    /\ IF ret.image_url # <<>>
       THEN /\ netLog' = Append(netLog, ret.image_url)
            /\ IF fetch = "ok"
               THEN /\ ui' = [message |-> ret.message, img |-> <<"image of", ret.image_url>>]
                    /\ raised' = raised
               ELSE /\ ui' = ui
                    /\ raised' = IF fetch = "error" THEN "ConnectionError"
                                 ELSE "UnidentifiedImageError"
       ELSE /\ fetch = "ok"
            /\ netLog' = netLog
            /\ ui' = [message |-> ret.message, img |-> <<>>]
            /\ raised' = raised
    /\ UNCHANGED <<product_url, product_category, ids, product_images, results, csv, ret,
                   svcLog, apiResponse, svcReplies, csvBefore, lastReport, input_url,
                   bootstrapResult, jsonErrorIsRequestException>>

\* the URLs given to the pipeline
ValidUrl == <<"-", "i", ".", "1", ".", "2">>
PipelineUrls == { <<>>, <<" ">>, <<"x">>, ValidUrl }

Next ==
    \/ \E url \in PipelineUrls, category \in Categories : StartRequest(url, category)
    \/ \E result \in BootstrapResults : Bootstrap(result)
    \/ \E resp \in ApiResponses : ApiRequest(resp)
    \/ \E reply \in SvcReplies \cup {NoReply} : JudgeNext(reply)
    \/ \E outcome \in WriteOutcomes(results) : WriteReport(outcome)
    \/ \E fetch \in SampleFetches : GradioReturn(fetch)

Spec == Init /\ [][Next]_vars

-----------------------------------------------------------------------------
(* The identifier parser on every short URL: the request up to the page view *)

UrlChars == {"i", ".", "1", "2", " "}

\* longer URLs holding several segments, or a segment inside other text
LongUrls ==
    { <<"i", ".", "1", ".", "2", "i", ".", "2", ".", "1">>,
      <<"i", ".", "i", ".", "2", "2", ".", "1", "1", ".", "i", ".", "1", ".", "2">>,
      <<" ", "i", ".", "1", "2", ".", "2", "1", " ", "i", ".", "2", ".", "2", " ">>,
      <<"i", ".", "1", ".", " ", "i", ".", ".", "2", "i", "1", ".", "2">> }

ParseUrls == SeqsUpTo(UrlChars, MaxUrlLen) \cup LongUrls

\* the URL about to be submitted is drawn first; the request then runs on it
InitParse ==
    /\ pc = "idle"
    /\ input_url \in ParseUrls
    /\ product_url = <<>>
    /\ product_category = "bags"
    /\ ids = <<>>
    /\ product_images = <<>>
    /\ results = <<>>
    /\ csv = <<>>
    /\ ret = NoRet
    /\ raised = "none"
    /\ ui = NoUi
    /\ netLog = <<>>
    /\ svcLog = <<>>
    /\ apiResponse = NoResponse
    /\ svcReplies = <<>>
    /\ csvBefore = <<>>
    /\ lastReport = <<>>
    /\ bootstrapResult = "none"
    /\ jsonErrorIsRequestException = TRUE

NextParse ==
    \/ StartRequest(input_url, "bags")
    \/ \E result \in BootstrapResults : Bootstrap(result)

SpecParse == InitParse /\ [][NextParse]_vars

-----------------------------------------------------------------------------
(* Vocabulary of the properties, stated without the operators of the model *)

NotPassText == <<"Not", " ", "Pass">>

\* the text between its first and its last non-whitespace token
Trimmed(t) ==
    LET solid == {i \in 1..Len(t) : t[i] \notin {" ", "\n", "\t"}}
    IN  IF solid = {} THEN <<>>
        ELSE SubSeq(t, CHOOSE i \in solid : \A j \in solid : i <= j,
                       CHOOSE i \in solid : \A j \in solid : j <= i)

Numeral(n) == CASE n = 0 -> "0" [] n = 1 -> "1" [] n = 2 -> "2" [] n = 3 -> "3"
                [] n = 4 -> "4" [] OTHER -> "many"

Percent(verdict) == IF verdict = <<"Pass">> THEN "100.00%" ELSE "0.00%"

HasReferences(category) ==
    category \in DOMAIN ReferenceData /\ Len(ReferenceData[category]) > 0

Succeeded == ret.image_url # <<>>
Ended == pc \in {"returned", "done"}

IsIdentifierError(m) ==
    m \in { <<"Error:", "Product URL is required.">>,
            <<"Error:", "Invalid Shopee URL format. Please try again.">> }
IsTimeoutError(m) == m = <<"Error:", "Request timed out. Please try again.">>
IsNetworkError(m) == Len(m) = 3 /\ m[1] = "Error:" /\ m[2] = "Failed to fetch data:"
IsHttpStatusError(m, status) ==
    Len(m) = 4 /\ m[1] = "Error:" /\ m[2] = "Failed to fetch product data (HTTP" /\ m[3] = status
IsNoImagesError(m) == m = <<"Error:", "No product images found.">>
IsFetchError(m) ==
    \/ IsTimeoutError(m) \/ IsNetworkError(m) \/ IsNoImagesError(m)
    \/ \E st \in Statuses : IsHttpStatusError(m, st)

CdnUrl(img_id) == <<"https://cf.shopee.co.id/file/", img_id>>

\* the verdict and confidence the adapter owes for one reply of the service
MappedRow(r, reply) ==
    IF reply.kind = "text"
    THEN /\ r.classification = Trimmed(reply.text)
         /\ r.confidence = IF Trimmed(reply.text) = <<"Pass">> THEN 1 ELSE 0
    ELSE r.classification = <<"Error">> /\ r.confidence = 0

\* the file a completed write of the current results must leave
ExpectedFile ==
    << <<"image_url", "authenticity_result", "confidence">> >>
    \o [i \in 1..Len(results) |->
            <<CdnUrl(product_images[i]), results[i].classification,
              Percent(results[i].classification)>>]

IsProperPrefix(a, b) == Len(a) < Len(b) /\ a = SubSeq(b, 1, Len(a))

RECURSIVE CountPassRows(_)
CountPassRows(rs) ==
    IF rs = <<>> THEN 0
    ELSE (IF Head(rs).classification = <<"Pass">> THEN 1 ELSE 0) + CountPassRows(Tail(rs))

-----------------------------------------------------------------------------
(* C1 *)

-----------------------------------------------------------------------------
(* C2 *)

\* C2: a judgment failure on any images never aborts the batch: every image is
\* still judged, a failed image gets an Error row with confidence 0, every
\* other image its mapped verdict, and the run ends with all n rows reported
\* (unless the report file itself cannot be written).
C2_JudgmentFailureNeverAborts ==
    /\ Len(svcReplies) = Len(results)
    /\ Len(results) <= Len(product_images)
    /\ \A i \in 1..Len(results) :
          /\ results[i].image_url = CdnUrl(product_images[i])
          /\ HasReferences(product_category) => MappedRow(results[i], svcReplies[i])
    /\ pc = "judge" => raised = "none" /\ ret = NoRet
    /\ pc = "write" => Len(results) = Len(product_images)
    /\ (product_images # <<>> /\ Ended) =>
          /\ Len(results) = Len(product_images)
          /\ \/ raised = "OSError"
             \/ /\ Succeeded
                /\ ret.message[3] = Numeral(Len(product_images))
                /\ csv = ExpectedFile

C2_Witness ==
    /\ pc = "returned" /\ Succeeded
    /\ Len(results) = 2
    /\ svcReplies[1].kind = "raise" /\ results[1].classification = <<"Error">>
    /\ svcReplies[2] = [kind |-> "text", text |-> <<"Pass">>]
    /\ results[2].classification = <<"Pass">>

-----------------------------------------------------------------------------
(* C3 *)

\* C3 as stated: after a failed page view (network error or timeout) the API
\* request is still issued.
C3_AsStated ==
    bootstrapResult \in {"timeout", "error"} => (pc = "api" \/ apiResponse # NoResponse)

\* C3 amended: a page view answered with any HTTP status is ignored and the API
\* request follows; a page view that raises a network error or a timeout ends
\* the request with the matching fetch error, and no API request is issued.
C3_OnlyResponsesAreIgnored ==
    /\ bootstrapResult \in {"timeout", "error"} =>
          /\ Ended
          /\ apiResponse = NoResponse
          /\ Len(netLog) = 1
          /\ raised = "none"
          /\ ret.image_url = <<>>
          /\ IF bootstrapResult = "timeout" THEN IsTimeoutError(ret.message)
             ELSE IsNetworkError(ret.message)
    /\ bootstrapResult \in {"200", "403"} =>
          \/ pc = "api" /\ Len(netLog) = 1 /\ ret = NoRet
          \/ apiResponse # NoResponse /\ Len(netLog) >= 2 /\ netLog[2] = product_url

C3_Witness ==
    /\ bootstrapResult = "timeout"
    /\ pc = "done"
    /\ IsTimeoutError(ui.message)
    /\ apiResponse = NoResponse

-----------------------------------------------------------------------------
(* C4 *)

\* the JSON body does not lead to a list along data.product_info.images
LacksImagesPath(body) ==
    \/ body.top # "obj"
    \/ body.data # "obj"
    \/ body.product_info # "obj"
    \/ body.images # "list"

\* C4: the outcome of the fetch is a function of the API response: timeout,
\* network error, HTTP status error carrying the code, NoImages for a JSON body
\* without the images path or with an empty list, the image list otherwise;
\* exactly one of them for every response, and a single API request.
C4_OutcomeIsFunctionOfResponse ==
    apiResponse # NoResponse =>
        /\ Cardinality({k \in 1..Len(netLog) : netLog[k] = product_url}) = 1
        /\ raised \in {"none", "OSError", "ConnectionError", "UnidentifiedImageError"}
        /\ CASE apiResponse.kind = "timeout" -> IsTimeoutError(ret.message)
             [] apiResponse.kind = "error" -> IsNetworkError(ret.message)
             [] apiResponse.kind = "response" /\ apiResponse.status # "200" ->
                    /\ IsHttpStatusError(ret.message, apiResponse.status)
                    /\ apiResponse.status \in Range(ret.message)
             [] apiResponse.kind = "response" /\ apiResponse.status = "200" ->
                    IF ~apiResponse.body.json
                    THEN IsFetchError(ret.message)
                    ELSE IF LacksImagesPath(apiResponse.body) \/ apiResponse.body.list = <<>>
                    THEN IsNoImagesError(ret.message)
                    ELSE /\ product_images = apiResponse.body.list
                         /\ ~IsFetchError(ret.message)

-----------------------------------------------------------------------------
(* C5 *)

\* C5: a request that ends in an identifier error or a fetch error has called
\* the judgment service zero times, has left the CSV file as it was and
\* returns no sample image.
C5_ErrorsLeaveNoTrace ==
    (Ended /\ (IsIdentifierError(ret.message) \/ IsFetchError(ret.message))) =>
        /\ svcLog = <<>>
        /\ svcReplies = <<>>
        /\ results = <<>>
        /\ csv = csvBefore
        /\ ret.image_url = <<>>
        /\ ui.img = <<>>

C5_Witness ==
    /\ pc = "done"
    /\ IsNoImagesError(ui.message)
    /\ csvBefore # <<>>
    /\ csv = csvBefore
    /\ svcLog = <<>>

-----------------------------------------------------------------------------
(* C6 *)

\* C6: no exception leaves the handler or the front-end wrapper, and every
\* failing request returns a message beginning with "Error:" and no image.
C6_NoExceptionEscapes ==
    pc = "done" =>
        /\ raised = "none"
        /\ ~Succeeded => (Head(ui.message) = "Error:" /\ ui.img = <<>>)

-----------------------------------------------------------------------------
(* C7 *)

\* C7: a successful run over n >= 1 images reports totalImages = n, passCount =
\* the number of rows whose verdict is exactly Pass, failCount = n - passCount,
\* and the CDN URL of the first image as the sample.
C7_SummaryCounts ==
    Succeeded =>
        LET n == Len(product_images)
            passes == CountPassRows(results)
        IN  /\ n >= 1
            /\ Len(results) = n
            /\ ret.message[2] = "Total Images Analyzed:" /\ ret.message[3] = Numeral(n)
            /\ ret.message[4] = "Appears Authentic:" /\ ret.message[5] = Numeral(passes)
            /\ ret.message[6] = "Potentially Counterfeit:"
            /\ ret.message[7] = Numeral(n - passes)
            /\ ret.image_url = CdnUrl(product_images[1])

C7_Witness ==
    /\ Succeeded
    /\ product_images = <<"B", "A">>
    /\ results[1].classification = <<"Pass", ".">>
    /\ results[2].classification = <<"Pass">>
    /\ ret.message[5] = "1" /\ ret.message[7] = "1"
    /\ ret.image_url = CdnUrl("B")

-----------------------------------------------------------------------------
(* C8 *)

\* the judge is called once per image, in listing order
JudgedOncePerImageInOrder ==
    /\ Len(svcReplies) = Len(results)
    /\ Len(results) <= Len(product_images)
    /\ (pc = "write" \/ Succeeded) => Len(results) = Len(product_images)
    /\ svcLog = IF HasReferences(product_category)
                THEN [i \in 1..Len(results) |->
                         <<ReferenceData[product_category][1], CdnUrl(product_images[i])>>]
                ELSE <<>>

-----------------------------------------------------------------------------
(* C9 *)

-----------------------------------------------------------------------------
(* C10 *)

IsDigit(c) == c \in {"1", "2"}

\* u holds i.<m digits>.<n digits> at position p, the digit runs being maximal
SegmentAt(u, p, m, n) ==
    /\ m >= 1 /\ n >= 1
    /\ p + 2 + m + n <= Len(u)
    /\ u[p] = "i" /\ u[p + 1] = "."
    /\ \A k \in (p + 2)..(p + 1 + m) : IsDigit(u[k])
    /\ u[p + 2 + m] = "."
    /\ \A k \in (p + 3 + m)..(p + 2 + m + n) : IsDigit(u[k])
    /\ (p + 3 + m + n <= Len(u) => ~IsDigit(u[p + 3 + m + n]))

Segments(u) ==
    {t \in (1..Len(u)) \X (1..Len(u)) \X (1..Len(u)) : SegmentAt(u, t[1], t[2], t[3])}

LeftmostSegment(u) == CHOOSE t \in Segments(u) : \A o \in Segments(u) : t[1] <= o[1]

SegmentPair(u) ==
    LET t == LeftmostSegment(u)
    IN  <<SubSeq(u, t[1] + 2, t[1] + 1 + t[2]),
          SubSeq(u, t[1] + 3 + t[2], t[1] + 2 + t[2] + t[3])>>

\* C10: parsing succeeds exactly for a non-blank URL holding a segment
\* i.<digits>.<digits> and returns the digit sequences of the leftmost one;
\* any other URL is rejected before any network request.
C10_ParseListingUrl ==
    pc # "idle" =>
        IF (\E k \in 1..Len(input_url) : input_url[k] # " ") /\ Segments(input_url) # {}
        THEN /\ ids = SegmentPair(input_url)
             /\ ids[1] # <<>> /\ ids[2] # <<>>
             /\ ~IsIdentifierError(ret.message)
        ELSE /\ ids = <<>>
             /\ pc = "returned"
             /\ IsIdentifierError(ret.message)
             /\ ret.image_url = <<>>
             /\ netLog = <<>>

C10_Witness ==
    /\ input_url = <<"i", ".", "1", ".", "2", "i", ".", "2", ".", "1">>
    /\ ids = << <<"1">>, <<"2">> >>
    /\ Len(netLog) = 1

====
